---- MODULE Spec2Model ----
(***************************************************************************)
(* Model of the chat session controller of CoTrading-FE: the Chat          *)
(* component (src/unnamed/part_000) and the SSE adapter (src/api/sse.ts).  *)
(*                                                                         *)
(* Strings are sequences of tokens.  A token is one character of a text    *)
(* ("a", " ", "\n") or, for event names, agent names and notification      *)
(* texts, one atomic word (<<"on_chain_end">>).  JSON values are tagged     *)
(* records: undefined, string, array, object (a function from field names  *)
(* to values).                                                             *)
(*                                                                         *)
(* One action is one run of a handler on the event loop: sendMessage up    *)
(* to its await, the continuation of sendMessage when the REST call        *)
(* settles, one SSE frame, the onerror callback, stop(), and the           *)
(* settlement of a history fetch.  Not modelled: timestamps                *)
(* (metadata.createdAt), window.history.replaceState, the unmount cleanup  *)
(* (part_000:111-118, after which the state is gone) and a change of the   *)
(* initialMessages prop (part_000:161-163).  The chat is mounted either    *)
(* new (autoResume false, no conversation) or resumed (autoResume true     *)
(* with a non-empty id, whose history fetch is in flight).                 *)
(***************************************************************************)
EXTENDS Integers, Sequences, FiniteSets, TLC

(* ---------------------------------------------------------------- bounds *)
\* The inputs that make the state grow are counted: an accepted submit, a
\* payload appended to the raw event log, a history fetch issued by stop().
MaxEvents == 3      \* such inputs in one behaviour
MaxExtracted == 1   \* payloads handed to delta extraction in one behaviour of SpecNormalizer

(* ------------------------------------------------------------ JSON values *)
Undef   == [t |-> "undef"]
Str(s)  == [t |-> "str", s |-> s]
Arr(a)  == [t |-> "arr", a |-> a]
Obj(f)  == [t |-> "obj", f |-> f]

IsStr(v) == v.t = "str"
IsArr(v) == v.t = "arr"
IsObj(v) == v.t = "obj"

\* JavaScript's v?.name
Get(v, name) == IF IsObj(v) /\ name \in DOMAIN v.f THEN v.f[name] ELSE Undef

\* JavaScript truthiness of a value that is undefined, a string, an array or an object
Truthy(v) == CASE v.t = "undef" -> FALSE
               [] v.t = "str"   -> v.s # <<>>
               [] OTHER         -> TRUE

\* a ?? b
Coalesce(a, b) == IF a.t = "undef" THEN b ELSE a

(* ---------------------------------------------------------------- strings *)
Whitespace == {" ", "\n", "\t"}

RECURSIVE TrimStart(_)
TrimStart(s) == IF s # <<>> /\ Head(s) \in Whitespace THEN TrimStart(Tail(s)) ELSE s

RECURSIVE TrimEnd(_)
TrimEnd(s) == IF s # <<>> /\ s[Len(s)] \in Whitespace
              THEN TrimEnd(SubSeq(s, 1, Len(s) - 1)) ELSE s

\* String.prototype.trim
Trim(s) == TrimEnd(TrimStart(s))

RECURSIVE Join(_, _)
\* Array.prototype.join over a sequence of strings
Join(ss, sep) == IF ss = <<>> THEN <<>>
                 ELSE IF Len(ss) = 1 THEN ss[1]
                 ELSE ss[1] \o sep \o Join(Tail(ss), sep)

RECURSIVE ReplaceEscape(_, _, _)
\* text.replace(/\\c/g, to): every backslash followed by the letter c becomes `to`
ReplaceEscape(s, c, to) ==
    IF Len(s) < 2 THEN s
    ELSE IF s[1] = "\\" /\ s[2] = c
         THEN <<to>> \o ReplaceEscape(SubSeq(s, 3, Len(s)), c, to)
         ELSE <<s[1]>> \o ReplaceEscape(Tail(s), c, to)

normalizeEscapes(text) == ReplaceEscape(ReplaceEscape(text, "n", "\n"), "t", "\t")

(* ------------------------------------------------------ Payload Normalizer *)
\* The characters of the texts of this model.  None of them is a brace, a
\* bracket or a quote, so on these texts the JSON branch of ensureString
\* (its startsWith test fails) and both patterns of
\* extractTextFromPythonLiteral (no quote to match) are not taken, and
\* ensureString of a string is normalizeEscapes of it.
TextAlphabet == {"a", "b", "r", "n", "t", " ", "\n", "\t", "\\"}

RECURSIVE JoinParts(_)
\* value.map(part => string ? part : part?.text string ? part.text : "").join("")
JoinParts(a) ==
    IF a = <<>> THEN <<>>
    ELSE (IF IsStr(Head(a)) THEN Head(a).s
          ELSE IF IsStr(Get(Head(a), "text")) THEN Get(Head(a), "text").s
          ELSE <<>>) \o JoinParts(Tail(a))

RECURSIVE ensureString(_)
ensureString(value) ==
    IF IsStr(value) THEN
        Str(normalizeEscapes(value.s))
    ELSE IF IsArr(value) THEN
        (IF JoinParts(value.a) # <<>> THEN Str(JoinParts(value.a)) ELSE Undef)
    ELSE IF IsObj(value) THEN
        IF IsStr(Get(value, "text")) THEN Get(value, "text")
        ELSE IF IsArr(Get(value, "content")) THEN ensureString(Get(value, "content"))
        ELSE IF IsStr(Get(value, "content")) THEN ensureString(Get(value, "content"))
        ELSE IF IsArr(Get(value, "delta")) THEN ensureString(Get(value, "delta"))
        ELSE IF IsArr(Get(value, "choices")) /\ Get(value, "choices").a # <<>> THEN
            LET choice == Get(value, "choices").a[1] IN
            IF Truthy(Get(choice, "delta")) THEN ensureString(Get(choice, "delta"))
            ELSE IF Truthy(Get(choice, "message")) THEN ensureString(Get(choice, "message"))
            ELSE Undef
        ELSE Undef
    ELSE Undef

RECURSIVE FirstText(_)
\* for (candidate of candidates) { text = ensureString(candidate); if (text && text.length > 0) return text }
FirstText(candidates) ==
    IF candidates = <<>> THEN Undef
    ELSE LET text == ensureString(Head(candidates)) IN
         IF Truthy(text) THEN text ELSE FirstText(Tail(candidates))

\* Faulty variant: the data.content candidate is tried first.
StreamCandidatesDataFirst(payload) ==
    << Get(Get(payload, "data"), "content"),
       Get(Get(payload, "chunk"), "content"),
       Get(Get(payload, "chunk"), "text"),
       Get(Get(payload, "chunk"), "delta"),
       Get(payload, "chunk"),
       Get(Get(Get(payload, "data"), "chunk"), "content"),
       Get(Get(Get(payload, "data"), "chunk"), "text"),
       Get(Get(Get(payload, "data"), "chunk"), "delta"),
       Get(Get(payload, "data"), "chunk"),
       Get(Get(payload, "data"), "text"),
       Get(payload, "delta"),
       Get(payload, "content") >>

StreamCandidates(payload) ==
    << Get(Get(payload, "chunk"), "content"),
       Get(Get(payload, "chunk"), "text"),
       Get(Get(payload, "chunk"), "delta"),
       Get(payload, "chunk"),
       Get(Get(Get(payload, "data"), "chunk"), "content"),
       Get(Get(Get(payload, "data"), "chunk"), "text"),
       Get(Get(Get(payload, "data"), "chunk"), "delta"),
       Get(Get(payload, "data"), "chunk"),
       Get(Get(payload, "data"), "content"),
       Get(Get(payload, "data"), "text"),
       Get(payload, "delta"),
       Get(payload, "content") >>

extractStreamText(payload) ==
    IF ~Truthy(payload) THEN Undef ELSE FirstText(StreamCandidates(payload))

FinalCandidates(payload) ==
    << Get(Get(Get(payload, "data"), "output"), "content"),
       Get(Get(Get(payload, "data"), "output"), "text"),
       Get(Get(payload, "data"), "output"),
       Get(Get(payload, "data"), "content"),
       Get(Get(payload, "data"), "text"),
       Get(Get(payload, "output"), "content"),
       Get(Get(payload, "output"), "text"),
       Get(payload, "output"),
       Get(payload, "content"),
       Get(payload, "message"),
       Get(payload, "delta") >>

extractFinalText(payload) ==
    IF ~Truthy(payload) THEN Undef ELSE FirstText(FinalCandidates(payload))

(* ------------------------------------------------------------------ state *)
VARIABLES
    status,             \* useState("ready"): "ready" | "submitted" | "streaming"
    messages,           \* useState<ChatMessage[]>: the transcript
    conversationIdRef,  \* conversationIdRef.current (and the conversationId state it mirrors)
    eventSourceRef,     \* eventSourceRef.current: a source id, or NoSource for null
    dataStream,         \* the raw event log kept by useDataStream
    openSources,        \* the EventSource objects that were created and not yet closed
    pending,            \* the create / append REST calls awaiting their response
    loads,              \* the history fetches awaiting their response (conversation ids)
    submitCount,        \* number of submits accepted so far
    inputCount,             \* number of counted inputs so far (see MaxEvents)
    toasted,            \* the notifications shown by the handler that ran last
    closedNow,          \* the EventSource objects closed by the handler that ran last
    chainErrored,       \* the EventSource objects that delivered an on_chain_error event
    lastOp              \* the name of the handler that ran last

vars == << status, messages, conversationIdRef, eventSourceRef, dataStream,
           openSources, pending, loads, submitCount, inputCount,
           toasted, closedNow, chainErrored, lastOp >>

NoSource == 0

NoCid        == [src |-> "none",   n |-> 0]     \* null
PropCid      == [src |-> "prop",   n |-> 0]     \* the id prop of a resumed chat
ServerCid(n) == [src |-> "server", n |-> n]     \* conversation_id of the n-th submit's create

\* The notification texts of the component, one atomic word each.
MsgWait        == <<"wait for the current reply before sending">>
MsgEmpty       == <<"enter the content to send">>
MsgNoConv      == <<"backend returned no conversation">>
MsgSendFailed  == <<"request failed">>
MsgGenFailed   == <<"generation failed, retry later">>
MsgNoStream    == <<"cannot connect to the generation service">>
MsgLoadFailed  == <<"HTTP 500">>

ErrorToast(description) == [type |-> "error", description |-> description]

(* ----------------------------------------------------- Transcript Aggregator *)
TextPart(text)      == [type |-> "text", text |-> text]
ReasoningPart(text) == [type |-> "reasoning", text |-> text]

\* parts.findIndex(part => part?.type === partType), 1-based, 0 for -1
FindIndex(parts, partType) ==
    IF \E i \in 1..Len(parts) : parts[i].type = partType
    THEN CHOOSE i \in 1..Len(parts) :
            /\ parts[i].type = partType
            /\ \A j \in 1..(i - 1) : parts[j].type # partType
    ELSE 0

\* Faulty variant: the delta is put in front of the previous text.
ApplyUpdaterPrepends(mode, arg, previous) ==
    IF mode = "append" THEN arg \o previous ELSE arg

\* Faulty variant: the final text is appended like a delta instead of replacing.
ApplyUpdaterAlwaysAppends(mode, arg, previous) == previous \o arg

\* The two updaters the component passes: previous => `${previous}${arg}` and () => arg
ApplyUpdater(mode, arg, previous) ==
    IF mode = "append" THEN previous \o arg ELSE arg

\* Faulty variant: the role of the last turn is not looked at.
updateLastAssistantPartAnyRole(prevMessages, partType, mode, arg) ==
    IF Len(prevMessages) = 0 THEN prevMessages
    ELSE
      LET lastIndex    == Len(prevMessages)
          lastMessage  == prevMessages[lastIndex]
          parts        == lastMessage.parts
          idx          == FindIndex(parts, partType)
          previousText == IF idx > 0 /\ IsStr(parts[idx].text) THEN parts[idx].text.s ELSE <<>>
          nextText     == ApplyUpdater(mode, arg, previousText)
          nextParts    == IF idx > 0
                          THEN [parts EXCEPT ![idx] = [type |-> partType, text |-> Str(nextText)]]
                          ELSE Append(parts, [type |-> partType, text |-> Str(nextText)])
      IN IF nextText = previousText THEN prevMessages
         ELSE [prevMessages EXCEPT ![lastIndex] = [lastMessage EXCEPT !.parts = nextParts]]

updateLastAssistantPart(prevMessages, partType, mode, arg) ==
    IF Len(prevMessages) = 0 THEN prevMessages
    ELSE
      LET lastIndex    == Len(prevMessages)
          lastMessage  == prevMessages[lastIndex]
          parts        == lastMessage.parts
          idx          == FindIndex(parts, partType)
          previousText == IF idx > 0 /\ IsStr(parts[idx].text) THEN parts[idx].text.s ELSE <<>>
          nextText     == ApplyUpdater(mode, arg, previousText)
          nextParts    == IF idx > 0
                          THEN [parts EXCEPT ![idx] = [type |-> partType, text |-> Str(nextText)]]
                          ELSE Append(parts, [type |-> partType, text |-> Str(nextText)])
      IN IF lastMessage.role # "assistant" THEN prevMessages
         ELSE IF nextText = previousText THEN prevMessages
         ELSE [prevMessages EXCEPT ![lastIndex] = [lastMessage EXCEPT !.parts = nextParts]]

updateAssistantMessage(prevMessages, mode, arg) ==
    updateLastAssistantPart(prevMessages, "text", mode, arg)

updateAssistantReasoning(prevMessages, mode, arg) ==
    updateLastAssistantPart(prevMessages, "reasoning", mode, arg)

\* (payload.event ?? payload.type ?? "").toString()
EventType(payload) ==
    Coalesce(Get(payload, "event"), Coalesce(Get(payload, "type"), Str(<<>>))).s

DeltaEvents == { <<"on_chat_model_stream">>, <<"on_llm_stream">>,
                 <<"on_chat_model_stream_chunk">>, <<"text_delta">>,
                 <<"delta">>, <<"chunk">> }

\* payload?.chunk?.reasoning ?? payload?.data?.chunk?.reasoning ??
\*   (payload?.type === "reasoning-delta" ? payload?.delta : undefined)
ReasoningDelta(payload) ==
    Coalesce(Get(Get(payload, "chunk"), "reasoning"),
      Coalesce(Get(Get(Get(payload, "data"), "chunk"), "reasoning"),
        IF Get(payload, "type") = Str(<<"reasoning-delta">>)
        THEN Get(payload, "delta") ELSE Undef))

\* payload?.data?.output?.reasoning ?? payload?.output?.reasoning
FinalReasoning(payload) ==
    Coalesce(Get(Get(Get(payload, "data"), "output"), "reasoning"),
             Get(Get(payload, "output"), "reasoning"))

\* appendChunk: typeof chunk === "string" && chunk.length > 0
appendChunk(prevMessages, chunk) ==
    IF IsStr(chunk) /\ chunk.s # <<>>
    THEN updateAssistantMessage(prevMessages, "append", chunk.s)
    ELSE prevMessages

\* Faulty variant: the typeof/length guard on the reasoning delta is missing, so
\* an absent one is appended as the text "undefined".
HandledMessagesUnguardedReasoning(prevMessages, payload) ==
    IF ~Truthy(payload) THEN prevMessages
    ELSE IF EventType(payload) \in DeltaEvents THEN
        LET delta    == extractStreamText(payload)
            rDelta   == ReasoningDelta(payload)
            withText == IF Truthy(delta) THEN appendChunk(prevMessages, delta)
                        ELSE prevMessages
        IN updateAssistantReasoning(withText, "append",
                                    IF IsStr(rDelta) THEN rDelta.s ELSE <<"undefined">>)
    ELSE IF EventType(payload) = <<"on_chat_model_end">> THEN
        LET finalContent   == extractFinalText(payload)
            finalReasoning == FinalReasoning(payload)
            withText == IF Truthy(finalContent)
                        THEN updateAssistantMessage(prevMessages, "replace", finalContent.s)
                        ELSE prevMessages
        IN IF IsStr(finalReasoning) /\ finalReasoning.s # <<>>
           THEN updateAssistantReasoning(withText, "replace", finalReasoning.s)
           ELSE withText
    ELSE prevMessages

\* The transcript after handleStreamPayload(payload)
HandledMessages(prevMessages, payload) ==
    IF ~Truthy(payload) THEN prevMessages
    ELSE IF EventType(payload) \in DeltaEvents THEN
        LET delta    == extractStreamText(payload)
            rDelta   == ReasoningDelta(payload)
            withText == IF Truthy(delta) THEN appendChunk(prevMessages, delta)
                        ELSE prevMessages
        IN IF IsStr(rDelta) /\ rDelta.s # <<>>
           THEN updateAssistantReasoning(withText, "append", rDelta.s)
           ELSE withText
    ELSE IF EventType(payload) = <<"on_chat_model_end">> THEN
        LET finalContent   == extractFinalText(payload)
            finalReasoning == FinalReasoning(payload)
            withText == IF Truthy(finalContent)
                        THEN updateAssistantMessage(prevMessages, "replace", finalContent.s)
                        ELSE prevMessages
        IN IF IsStr(finalReasoning) /\ finalReasoning.s # <<>>
           THEN updateAssistantReasoning(withText, "replace", finalReasoning.s)
           ELSE withText
    ELSE prevMessages

IsChainError(payload) == Truthy(payload) /\ EventType(payload) = <<"on_chain_error">>

\* Faulty variant: data.error is not looked at.
ChainErrorMessageSkipsError(payload) ==
    Coalesce(Get(Get(payload, "data"), "message"), Str(MsgGenFailed)).s

\* payload?.data?.message ?? payload?.data?.error ?? default
ChainErrorMessage(payload) ==
    Coalesce(Get(Get(payload, "data"), "message"),
             Coalesce(Get(Get(payload, "data"), "error"), Str(MsgGenFailed))).s

\* The status after handleStreamPayload(payload)
HandledStatus(prevStatus, payload) ==
    IF IsChainError(payload) THEN "ready" ELSE prevStatus

\* The notifications handleStreamPayload(payload) shows
HandledToasts(payload) ==
    IF IsChainError(payload) THEN << ErrorToast(ChainErrorMessage(payload)) >> ELSE << >>

\* The raw event log after handleStreamPayload(payload)
HandledLog(prevLog, payload) ==
    IF ~Truthy(payload) THEN prevLog ELSE Append(prevLog, payload)

(* ------------------------------------------------------------------ inputs *)
F1(k, v)           == Obj(k :> v)
F2(k1, v1, k2, v2) == Obj(k1 :> v1 @@ k2 :> v2)
Ev(name)           == Str(<<name>>)

PDeltaA   == F2("event", Ev("on_chat_model_stream"), "chunk", F1("content", Str(<<"a">>)))
PDeltaB   == Obj("event" :> Ev("on_llm_stream")
                 @@ "chunk" :> F1("content", Str(<<"b">>))
                 @@ "data" :> F1("content", Str(<<"a">>)))
PReason   == F2("event", Ev("on_chat_model_stream_chunk"), "chunk", F1("reasoning", Str(<<"r">>)))
PEmpty    == F2("type", Ev("delta"), "chunk", F1("content", Str(<< >>)))
PAbsent   == F1("event", Ev("chunk"))
PFinal    == F2("event", Ev("on_chat_model_end"),
                "data", F1("output", F2("content", Str(<<"b">>), "reasoning", Str(<<"r">>))))
PDone     == F2("event", Ev("on_chain_end"), "name", Ev("ReAct Agent"))
PSubEnd   == F2("event", Ev("on_chain_end"), "name", Ev("Research Agent"))
PNoName   == F1("event", Ev("on_chain_end"))
PError    == F2("event", Ev("on_chain_error"), "data", F1("message", Ev("rate limited")))
PErrorAlt == F2("event", Ev("on_chain_error"), "data", F1("error", Ev("quota exceeded")))
PErrorBare == F1("event", Ev("on_chain_error"))
PTool     == F1("event", Ev("on_tool_start"))

Payloads == { PDeltaA, PDeltaB, PReason, PEmpty, PAbsent, PFinal, PDone, PSubEnd, PNoName,
              PError, PErrorAlt, PErrorBare, PTool }

\* An SSE frame: its data is empty, is not JSON, or parses to a payload
\* (JSON null parses to a falsy payload, written Undef).
Frames == { [data |-> "empty", payload |-> Undef],
            [data |-> "malformed", payload |-> Undef] }
          \cup { [data |-> "json", payload |-> p] : p \in Payloads \cup {Undef} }

\* The parts of the message handed to sendMessage
UserPart(type, text) == [type |-> type, text |-> text]

MessageInputs ==
    { << UserPart("text", Str(<<"h", "i">>)) >>,
      << UserPart("text", Str(<<" ", "\n">>)) >>,
      << UserPart("file", Undef) >>,
      << UserPart("text", Str(<< >>)), UserPart("text", Str(<< >>)) >>,
      << >> }

\* Items of GET /conversations/:cid/messages
BackendItem(n, role, content, events) ==
    [message_id |-> [k |-> "h", n |-> n], role |-> role, content |-> content, events |-> events]

BackendHistories ==
    { << >>,
      << BackendItem(1, "user", Str(<<"h", "i">>), Undef),
         BackendItem(2, "assistant", Str(<<"a">>),
                     Arr(<< F1("data", F1("output", F1("reasoning", Str(<<"r">>)))) >>)) >> }

(* ------------------------------------------------------ Event Stream Adapter *)
FinalAgents == { <<"ReAct Agent">>, <<"Supervisor Agent">> }

\* Faulty variant: the name of the agent is not looked at.
IsCompletionAnyAgent(payload) == Get(payload, "event") = Ev("on_chain_end")

\* payload?.event === 'on_chain_end' && final.has(payload?.name)
IsCompletion(payload) ==
    /\ Get(payload, "event") = Ev("on_chain_end")
    /\ IsStr(Get(payload, "name"))
    /\ Get(payload, "name").s \in FinalAgents

\* forward(name)(event) calls opts.onEvent(payload, name)
Forwarded(frame) == frame.data = "json"

\* forward(name)(event) then calls opts.onComplete()
Completes(frame) == Forwarded(frame) /\ IsCompletion(frame.payload)

(* ------------------------------------------------- Session Controller helpers *)
\* Faulty variants: cleanup() forgets to close the source; forgets to reset status.
CleanupSourcesLeaks(open, ref)     == open
CleanupStatusKeeps(prevStatus)     == prevStatus

\* cleanup() of openStream: close eventSourceRef.current, null it, status ready
CleanupSources(open, ref) == open \ {ref}
CleanupRef(ref)           == NoSource
CleanupStatus(prevStatus) == "ready"

\* Faulty variant: the content is not trimmed.
ContentUntrimmed(parts) ==
    LET texts == SelectSeq(parts, LAMBDA part : part.type = "text" /\ IsStr(part.text))
    IN Join([i \in 1..Len(texts) |-> texts[i].text.s], <<"\n">>)

\* message.parts.filter(text parts).map(text).join("\n").trim()
Content(parts) ==
    LET texts == SelectSeq(parts, LAMBDA part : part.type = "text" /\ IsStr(part.text))
    IN Trim(Join([i \in 1..Len(texts) |-> texts[i].text.s], <<"\n">>))

\* events.map(e => e.data?.output?.reasoning ?? "") as strings
EventReasonings(events) ==
    [i \in 1..Len(events) |->
        LET r == Coalesce(Get(Get(Get(events[i], "data"), "output"), "reasoning"), Str(<< >>))
        IN r.s]

mapBackendMessage(item) ==
    [id    |-> item.message_id,
     role  |-> item.role,
     parts |-> << ReasoningPart(IF IsArr(item.events)
                                THEN Str(Join(EventReasonings(item.events.a), <<"\n">>))
                                ELSE Undef),
                  TextPart(IF IsStr(item.content) THEN item.content ELSE Str(<< >>)) >>]

\* appendUserAndAssistant of the n-th accepted submit
UserTurn(n, parts)  == [id |-> [k |-> "u", n |-> n], role |-> "user", parts |-> parts]
AssistantTurn(n)    == [id |-> [k |-> "a", n |-> n], role |-> "assistant",
                        parts |-> << TextPart(Str(<< >>)) >>]

\* Faulty variant: the placeholder is appended whether or not an assistant id came back.
appendUserAndAssistantAlways(prev, n, parts, hasAssistantId) ==
    Append(Append(prev, UserTurn(n, parts)), AssistantTurn(n))

appendUserAndAssistant(prev, n, parts, hasAssistantId) ==
    IF hasAssistantId
    THEN Append(Append(prev, UserTurn(n, parts)), AssistantTurn(n))
    ELSE Append(prev, UserTurn(n, parts))

RemoveAt(s, i) == [j \in 1..(Len(s) - 1) |-> IF j < i THEN s[j] ELSE s[j + 1]]

(* ------------------------------------------------------------------ actions *)
Init ==
    \E autoResume \in BOOLEAN :
        /\ status = "ready"
        /\ messages = << >>
        /\ conversationIdRef = (IF autoResume THEN PropCid ELSE NoCid)
        /\ eventSourceRef = NoSource
        /\ dataStream = << >>
        /\ openSources = {}
        /\ pending = {}
        \* the mount effect: if (autoResume && conversationId) loadMessages(conversationId)
        /\ loads = (IF autoResume THEN << PropCid >> ELSE << >>)
        /\ submitCount = 0
        /\ inputCount = 0
        /\ toasted = << >>
        /\ closedNow = {}
        /\ chainErrored = {}
        /\ lastOp = "mount"

\* Faulty variant: openStream does not close the handle it finds open.
openStreamLeaks(ref, open, n, ok) ==
    IF ok
    THEN [ref |-> n, open |-> open \cup {n}, status |-> "streaming", toasts |-> << >>,
          closed |-> {}]
    ELSE [ref |-> NoSource, open |-> open, status |-> "ready",
          toasts |-> << ErrorToast(MsgNoStream) >>, closed |-> {}]

\* Faulty variant: the catch block of openStream does not set status, which is
\* still the submitted of the submit that called it.
openStreamCatchKeepsStatus(ref, open, n, ok) ==
    LET closed == IF ref # NoSource THEN open \ {ref} ELSE open
    IN IF ok
       THEN [ref |-> n, open |-> closed \cup {n}, status |-> "streaming", toasts |-> << >>,
             closed |-> open \ closed]
       ELSE [ref |-> NoSource, open |-> closed, status |-> "submitted",
             toasts |-> << ErrorToast(MsgNoStream) >>, closed |-> open \ closed]

\* openStream(cid) called by the n-th submit; `ok` is whether new EventSource(url)
\* returned (TRUE) or threw (FALSE).  The result is the state it leaves.
openStream(ref, open, n, ok) ==
    LET closed == IF ref # NoSource THEN open \ {ref} ELSE open
    IN IF ok
       THEN [ref |-> n, open |-> closed \cup {n}, status |-> "streaming", toasts |-> << >>,
             closed |-> open \ closed]
       ELSE [ref |-> NoSource, open |-> closed, status |-> "ready",
             toasts |-> << ErrorToast(MsgNoStream) >>, closed |-> open \ closed]

\* Faulty variant: the create path does not look at data.started.
CreateOpensIgnoresStarted(data) == data.hasAssistantId

\* create path: stream only if data.started && assistantMessageId
CreateOpens(data) == data.started /\ data.hasAssistantId

\* append path: stream if assistantMessageId
AppendOpens(data) == data.hasAssistantId

\* sendMessage up to its first await
sendMessage(message) ==
    /\ lastOp' = "sendMessage"
    /\ UNCHANGED chainErrored
    /\ closedNow' = {}
    /\ IF status # "ready" THEN
           /\ toasted' = << ErrorToast(MsgWait) >>
           /\ UNCHANGED << status, messages, conversationIdRef, eventSourceRef, dataStream,
                           openSources, pending, loads, submitCount, inputCount >>
       ELSE IF Content(message) = << >> THEN
           /\ toasted' = << ErrorToast(MsgEmpty) >>
           /\ UNCHANGED << status, messages, conversationIdRef, eventSourceRef, dataStream,
                           openSources, pending, loads, submitCount, inputCount >>
       ELSE
           /\ inputCount < MaxEvents
           /\ inputCount' = inputCount + 1
           /\ status' = "submitted"
           /\ dataStream' = << >>
           /\ submitCount' = submitCount + 1
           /\ pending' = pending \cup
                  { [n     |-> submitCount + 1,
                     kind  |-> IF conversationIdRef = NoCid THEN "create" ELSE "append",
                     cid   |-> conversationIdRef,
                     parts |-> message] }
           /\ toasted' = << >>
           /\ UNCHANGED << messages, conversationIdRef, eventSourceRef, openSources, loads >>

\* Api.postConversations resolved with `data`; sendMessage runs to its end
postConversationsResolved(call, data, ok) ==
    /\ call \in pending /\ call.kind = "create"
    /\ pending' = pending \ {call}
    /\ lastOp' = "postConversationsResolved"
    /\ UNCHANGED chainErrored
    /\ IF ~data.hasConversationId THEN
           \* throw new Error(...) caught at the end of sendMessage
           /\ status' = "ready"
           /\ toasted' = << ErrorToast(MsgNoConv) >>
           /\ closedNow' = {}
           /\ UNCHANGED << messages, conversationIdRef, eventSourceRef, openSources >>
       ELSE
           /\ conversationIdRef' = ServerCid(call.n)
           /\ messages' = appendUserAndAssistant(messages, call.n, call.parts, data.hasAssistantId)
           /\ IF CreateOpens(data) THEN
                  LET o == openStream(eventSourceRef, openSources, call.n, ok) IN
                  /\ eventSourceRef' = o.ref
                  /\ openSources' = o.open
                  /\ status' = o.status
                  /\ toasted' = o.toasts
                  /\ closedNow' = o.closed
              ELSE
                  /\ status' = "ready"
                  /\ toasted' = << >>
                  /\ closedNow' = {}
                  /\ UNCHANGED << eventSourceRef, openSources >>
    /\ UNCHANGED << dataStream, loads, submitCount, inputCount >>

\* Api.postConversationsMessages resolved with `data`; sendMessage runs to its end
postConversationsMessagesResolved(call, data, ok) ==
    /\ call \in pending /\ call.kind = "append"
    /\ pending' = pending \ {call}
    /\ lastOp' = "postConversationsMessagesResolved"
    /\ UNCHANGED chainErrored
    /\ messages' = appendUserAndAssistant(messages, call.n, call.parts, data.hasAssistantId)
    /\ IF AppendOpens(data) THEN
           LET o == openStream(eventSourceRef, openSources, call.n, ok) IN
           /\ eventSourceRef' = o.ref
           /\ openSources' = o.open
           /\ status' = o.status
           /\ toasted' = o.toasts
           /\ closedNow' = o.closed
       ELSE
           /\ status' = "ready"
           /\ toasted' = << >>
           /\ closedNow' = {}
           /\ UNCHANGED << eventSourceRef, openSources >>
    /\ UNCHANGED << conversationIdRef, dataStream, loads, submitCount, inputCount >>

\* Faulty variant: the catch block shows the notification but leaves status as it is.
sendMessageRejectedKeepsStatus(call) ==
    /\ call \in pending
    /\ pending' = pending \ {call}
    /\ lastOp' = "sendMessageRejected"
    /\ UNCHANGED chainErrored
    /\ closedNow' = {}
    /\ toasted' = << ErrorToast(MsgSendFailed) >>
    /\ UNCHANGED << status, messages, conversationIdRef, eventSourceRef, dataStream,
                    openSources, loads, submitCount, inputCount >>

\* the create or append call rejected; the catch block of sendMessage
sendMessageRejected(call) ==
    /\ call \in pending
    /\ pending' = pending \ {call}
    /\ lastOp' = "sendMessageRejected"
    /\ UNCHANGED chainErrored
    /\ closedNow' = {}
    /\ status' = "ready"
    /\ toasted' = << ErrorToast(MsgSendFailed) >>
    /\ UNCHANGED << messages, conversationIdRef, eventSourceRef, dataStream,
                    openSources, loads, submitCount, inputCount >>

\* The notifications the onError callback of openStream shows
OnErrorToasts == << >>

\* A frame arrives on an open EventSource: forward(name)(event) of sse.ts with
\* the onEvent and onComplete callbacks openStream passes
streamFrame(src, frame) ==
    /\ src \in openSources
    /\ inputCount' = (IF Forwarded(frame) /\ Truthy(frame.payload) THEN inputCount + 1 ELSE inputCount)
    /\ inputCount' <= MaxEvents
    /\ lastOp' = "streamFrame"
    /\ chainErrored' = (IF Forwarded(frame) /\ IsChainError(frame.payload)
                        THEN chainErrored \cup {src} ELSE chainErrored)
    /\ IF Forwarded(frame) THEN
           /\ dataStream' = HandledLog(dataStream, frame.payload)
           /\ messages' = HandledMessages(messages, frame.payload)
           /\ toasted' = HandledToasts(frame.payload)
           /\ IF Completes(frame) THEN
                  /\ openSources' = CleanupSources(openSources, eventSourceRef)
                  /\ eventSourceRef' = CleanupRef(eventSourceRef)
                  /\ status' = CleanupStatus(HandledStatus(status, frame.payload))
              ELSE
                  /\ status' = HandledStatus(status, frame.payload)
                  /\ UNCHANGED << eventSourceRef, openSources >>
       ELSE
           /\ toasted' = << >>
           /\ UNCHANGED << status, messages, eventSourceRef, dataStream, openSources >>
    /\ UNCHANGED << conversationIdRef, pending, loads, submitCount >>
    /\ closedNow' = openSources \ openSources'

\* source.onerror: opts.onError(ev), which is cleanup()
streamError(src) ==
    /\ src \in openSources
    /\ lastOp' = "streamError"
    /\ UNCHANGED chainErrored
    /\ openSources' = CleanupSources(openSources, eventSourceRef)
    /\ eventSourceRef' = CleanupRef(eventSourceRef)
    /\ status' = CleanupStatus(status)
    /\ toasted' = OnErrorToasts
    /\ UNCHANGED << messages, conversationIdRef, dataStream, pending, loads, submitCount, inputCount >>
    /\ closedNow' = openSources \ openSources'

\* Faulty variant: stop() does not refetch the history.
StopLoadsNever(prevLoads, cid) == prevLoads

\* The history fetches stop() leaves in flight
StopLoads(prevLoads, cid) == IF cid # NoCid THEN Append(prevLoads, cid) ELSE prevLoads

StopSources(open, ref) == IF ref # NoSource THEN open \ {ref} ELSE open

stop ==
    /\ inputCount' = (IF conversationIdRef # NoCid THEN inputCount + 1 ELSE inputCount)
    /\ inputCount' <= MaxEvents
    /\ lastOp' = "stop"
    /\ UNCHANGED chainErrored
    /\ openSources' = StopSources(openSources, eventSourceRef)
    /\ eventSourceRef' = NoSource
    /\ status' = "ready"
    /\ loads' = StopLoads(loads, conversationIdRef)
    /\ toasted' = << >>
    /\ UNCHANGED << messages, conversationIdRef, dataStream, pending, submitCount >>
    /\ closedNow' = openSources \ openSources'

\* Faulty variant: a 404 is handled like every other failure.
isNotFoundNever(outcome) == FALSE

\* isNotFound: /HTTP\s+404/.test(error.message) of the failure
isNotFound(outcome) == outcome = "404"

\* Api.getConversationsMessages of loadMessages settles: "items", "404" or "error"
loadMessagesSettled(i, outcome, items) ==
    /\ i \in 1..Len(loads)
    /\ loads' = RemoveAt(loads, i)
    /\ lastOp' = "loadMessagesSettled"
    /\ UNCHANGED chainErrored
    /\ closedNow' = {}
    /\ CASE outcome = "items" ->
              /\ messages' = [j \in 1..Len(items) |-> mapBackendMessage(items[j])]
              /\ toasted' = << >>
         [] outcome # "items" /\ isNotFound(outcome) ->
              /\ items = << >>
              /\ messages' = << >>
              /\ toasted' = << >>
         [] OTHER ->
              /\ items = << >>
              /\ toasted' = << ErrorToast(MsgLoadFailed) >>
              /\ UNCHANGED messages
    /\ UNCHANGED << status, conversationIdRef, eventSourceRef, dataStream,
                    openSources, pending, submitCount, inputCount >>

(* --------------------------------------------- inputs of delta extraction *)
\* A JSON object with the fields of `fields` that are not undefined, undefined
\* when there is none
ObjOf(fields) ==
    LET names == { name \in DOMAIN fields : fields[name] # Undef }
    IN IF names = {} THEN Undef ELSE Obj([name \in names |-> fields[name]])

\* A chunk: the string `whole` when given, else an object of the given fields
ChunkOf(content, text, delta, whole) ==
    IF whole # Undef THEN whole
    ELSE ObjOf("content" :> content @@ "text" :> text @@ "delta" :> delta)

\* The delta event whose twelve places extractStreamText looks at hold v[1..12]
SlotPayload(v) ==
    Obj("event" :> Ev("on_chat_model_stream")
        @@ (ObjOf("chunk" :> ChunkOf(v[1], v[2], v[3], v[4])
                  @@ "data" :> ObjOf("chunk" :> ChunkOf(v[5], v[6], v[7], v[8])
                                     @@ "content" :> v[9] @@ "text" :> v[10])
                  @@ "delta" :> v[11]
                  @@ "content" :> v[12])).f)

\* Place i holds `first`, place j (when another) holds `second`, the rest nothing
TwoSlots(i, first, j, second) ==
    [k \in 1..12 |-> IF k = i THEN first ELSE IF k = j THEN second ELSE Undef]

\* A chunk is a string or an object: places 4 and 8 exclude the fields below them
SlotsCompatible(i, j) ==
    /\ ~(4 \in {i, j} /\ {i, j} \cap {1, 2, 3} # {})
    /\ ~(8 \in {i, j} /\ {i, j} \cap {5, 6, 7} # {})

\* Delta events with one or two of the twelve places filled: one with "a" or
\* the empty string, the other with the text backslash-n-b
ExtractInputs ==
    { SlotPayload(TwoSlots(c[1], c[2], c[3], Str(<<"\\", "n", "b">>))) :
        c \in { c \in (1..12) \X {Str(<<"a">>), Str(<< >>)} \X (1..12) :
                    SlotsCompatible(c[1], c[3]) } }

\* The first submit of a new chat has opened its stream
InitNormalizer ==
    /\ status = "streaming"
    /\ messages = << UserTurn(1, << UserPart("text", Str(<<"h", "i">>)) >>), AssistantTurn(1) >>
    /\ conversationIdRef = ServerCid(1)
    /\ eventSourceRef = 1
    /\ openSources = {1}
    /\ dataStream = << >>
    /\ pending = {}
    /\ loads = << >>
    /\ submitCount = 1
    /\ inputCount = 1
    /\ toasted = << >>
    /\ closedNow = {}
    /\ chainErrored = {}
    /\ lastOp = "postConversationsResolved"

\* The stream delivers delta events
NextNormalizer ==
    \E payload \in ExtractInputs :
        /\ Len(dataStream) < MaxExtracted
        /\ streamFrame(1, [data |-> "json", payload |-> payload])

SpecNormalizer == InitNormalizer /\ [][NextNormalizer]_vars

ResponseData == [hasConversationId : BOOLEAN, hasAssistantId : BOOLEAN, started : BOOLEAN]
AppendData   == { d \in ResponseData : ~d.hasConversationId /\ ~d.started }

Next ==
    \/ \E message \in MessageInputs : sendMessage(message)
    \/ \E call \in pending, data \in ResponseData, ok \in BOOLEAN :
            /\ (CreateOpens(data) /\ data.hasConversationId) \/ ok
            /\ postConversationsResolved(call, data, ok)
    \/ \E call \in pending, data \in AppendData, ok \in BOOLEAN :
            /\ AppendOpens(data) \/ ok
            /\ postConversationsMessagesResolved(call, data, ok)
    \/ \E call \in pending : sendMessageRejected(call)
    \/ \E src \in openSources, frame \in Frames : streamFrame(src, frame)
    \/ \E src \in openSources : streamError(src)
    \/ stop
    \/ \E i \in 1..Len(loads), outcome \in {"items", "404", "error"}, items \in BackendHistories :
            loadMessagesSettled(i, outcome, items)

Spec == Init /\ [][Next]_vars

(* ---------------------------------------------------------------- fairness *)
\* A pending create or append call returns or fails
RestSettles ==
    \E call \in pending :
        \/ sendMessageRejected(call)
        \/ \E data \in ResponseData, ok \in BOOLEAN :
               /\ (CreateOpens(data) /\ data.hasConversationId) \/ ok
               /\ postConversationsResolved(call, data, ok)
        \/ \E data \in AppendData, ok \in BOOLEAN :
               /\ AppendOpens(data) \/ ok
               /\ postConversationsMessagesResolved(call, data, ok)

\* The open stream delivers its completion signal or a transport error, or
\* stop() is invoked while streaming
StreamEnds ==
    \/ \E src \in openSources :
           \/ streamError(src)
           \/ \E frame \in Frames : Completes(frame) /\ streamFrame(src, frame)
    \/ status = "streaming" /\ stop

\* The controller with a backend whose REST calls settle and whose streams end
SpecLive == Init /\ [][Next]_vars /\ WF_vars(RestSettles) /\ WF_vars(StreamEnds)

(* ------------------------------------------------------------------ claims *)
StreamOpen == openSources # {}

LastTurn(msgs) == msgs[Len(msgs)]

\* The text of the part of the given type of a turn, "" when it has none
PartText(turn, partType) ==
    LET idx == FindIndex(turn.parts, partType)
    IN IF idx > 0 /\ IsStr(turn.parts[idx].text) THEN turn.parts[idx].text.s ELSE << >>

LastIsAssistant(msgs) == Len(msgs) > 0 /\ LastTurn(msgs).role = "assistant"

StatusMachine ==
    { << "ready", "submitted" >>, << "submitted", "streaming" >>,
      << "submitted", "ready" >>, << "streaming", "ready" >> }

\* C1: every change of status is ready->submitted, submitted->streaming,
\* submitted->ready or streaming->ready; in particular status never changes
\* directly from ready to streaming.
C1_StatusFollowsStateMachine ==
    [][ status' # status => << status, status' >> \in StatusMachine ]_vars

\* C2 as stated: a stream handle is open if and only if status = streaming.
C2_StreamOpenIffStreaming ==
    StreamOpen <=> status = "streaming"

\* C2 as amended: status = streaming implies that the handle the controller
\* holds is open; the converse is not claimed (on_chain_error sets status to
\* ready and leaves the handle open).
C2_StreamingImpliesStreamOpen ==
    status = "streaming" => (eventSourceRef # NoSource /\ eventSourceRef \in openSources)

\* C2 witness: the stream of the first submit is open and status is streaming.
C2_Witness ==
    status = "streaming" /\ openSources = {1} /\ lastOp = "postConversationsResolved"

\* C3: at most one stream handle is open per controller in every reachable
\* state, the one the controller holds; a handle that was open when openStream
\* ran is closed before the new one is created.
C3_AtMostOneStreamOpen ==
    /\ Cardinality(openSources) <= 1
    /\ openSources \subseteq {eventSourceRef}

\* C3 witness: the second submit's openStream found the first stream still
\* open, closed it and opened its own.
C3_Witness ==
    /\ lastOp = "postConversationsMessagesResolved"
    /\ closedNow = {1}
    /\ openSources = {2}
    /\ eventSourceRef = 2

\* All characters of all text parts of the message are white space, so the
\* joined content is empty after trimming.
EmptyAfterTrim(message) ==
    \A i \in 1..Len(message) :
        (message[i].type = "text" /\ IsStr(message[i].text)) =>
            \A j \in 1..Len(message[i].text.s) : message[i].text.s[j] \in Whitespace

\* C4: a submit made while status is not ready, or whose text content is
\* empty after trimming, shows one notice and changes nothing: status,
\* transcript, conversation id, raw event log and stream handle are unchanged
\* and no REST call is issued.
C4_RejectedSubmitChangesNothing ==
    [][ \A message \in MessageInputs :
            (sendMessage(message) /\ (status # "ready" \/ EmptyAfterTrim(message)))
            => /\ Len(toasted') = 1
               /\ toasted'[1].type = "error"
               /\ UNCHANGED << status, messages, conversationIdRef, dataStream,
                               eventSourceRef, openSources, pending, loads >> ]_vars

\* C4 witness: a submit was rejected while a reply was streaming.
C4_Witness ==
    /\ lastOp = "sendMessage"
    /\ status = "streaming"
    /\ toasted = << ErrorToast(MsgWait) >>

\* The delta a payload carries, "" when extraction finds none
DeltaOf(payload) ==
    LET delta == extractStreamText(payload) IN IF IsStr(delta) THEN delta.s ELSE << >>

IsDeltaFrame(frame) ==
    frame.data = "json" /\ Truthy(frame.payload) /\ EventType(frame.payload) \in DeltaEvents

\* C5: each text-delta event applied while the last turn is an assistant turn
\* leaves that turn's text equal to its text before followed by the extracted
\* delta, so a sequence of them yields the concatenation in arrival order.
C5_DeltasConcatenateInOrder ==
    [][ \A src \in openSources, frame \in Frames :
            (streamFrame(src, frame) /\ IsDeltaFrame(frame) /\ LastIsAssistant(messages))
            => /\ Len(messages') = Len(messages)
               /\ PartText(LastTurn(messages'), "text")
                    = PartText(LastTurn(messages), "text") \o DeltaOf(frame.payload) ]_vars

\* C5 witness: delta "a" then delta "b" arrived and the turn's text is "ab".
C5_Witness ==
    /\ lastOp = "streamFrame"
    /\ dataStream = << PDeltaA, PDeltaB >>
    /\ LastIsAssistant(messages)
    /\ PartText(LastTurn(messages), "text") = << "a", "b" >>

IsFinalFrame(frame) ==
    /\ frame.data = "json" /\ Truthy(frame.payload)
    /\ EventType(frame.payload) = << "on_chat_model_end" >>
    /\ Truthy(extractFinalText(frame.payload))

\* C6: an on_chat_model_end event carrying final text T (and final reasoning
\* R), applied while the last turn is an assistant turn, sets that turn's text
\* to exactly T (and its reasoning to exactly R) whatever was accumulated
\* before, and applying the same event again leaves the transcript unchanged.
C6_FinalEventReplaces ==
    [][ \A src \in openSources, frame \in Frames :
            (streamFrame(src, frame) /\ IsFinalFrame(frame) /\ LastIsAssistant(messages))
            => /\ PartText(LastTurn(messages'), "text") = extractFinalText(frame.payload).s
               /\ Truthy(FinalReasoning(frame.payload))
                    => PartText(LastTurn(messages'), "reasoning") = FinalReasoning(frame.payload).s
               /\ HandledMessages(messages', frame.payload) = messages' ]_vars

\* C6 witness: the text accumulated from delta "a" was replaced by final "b".
C6_Witness ==
    /\ lastOp = "streamFrame"
    /\ dataStream = << PDeltaA, PFinal >>
    /\ LastIsAssistant(messages)
    /\ PartText(LastTurn(messages), "text") = << "b" >>
    /\ PartText(LastTurn(messages), "reasoning") = << "r" >>

\* The completion signal: event = on_chain_end and name in the final-agent set
IsCompletionFrame(frame) ==
    /\ frame.data = "json"
    /\ Get(frame.payload, "event") = Ev("on_chain_end")
    /\ \E agent \in FinalAgents : Get(frame.payload, "name") = Str(agent)

\* C7: when a frame carrying the completion signal or a transport error is
\* delivered on the open stream, then after that callback the stream handle is
\* closed and status is ready; the completing payload was passed to the event
\* callback (it is in the raw event log).
C7_CompletionOrErrorClosesStream ==
    [][ /\ \A src \in openSources, frame \in Frames :
              (streamFrame(src, frame) /\ IsCompletionFrame(frame))
              => /\ dataStream' = Append(dataStream, frame.payload)
                 /\ src \notin openSources'
                 /\ eventSourceRef' = NoSource
                 /\ status' = "ready"
        /\ \A src \in openSources :
              streamError(src)
              => /\ src \notin openSources'
                 /\ eventSourceRef' = NoSource
                 /\ status' = "ready" ]_vars

\* C7 witness: the completion frame arrived while streaming and closed stream 1.
C7_Witness ==
    /\ lastOp = "streamFrame"
    /\ dataStream # << >> /\ dataStream[Len(dataStream)] = PDone
    /\ closedNow = {1}
    /\ openSources = {}
    /\ status = "ready"

IsNonFinalChainEnd(frame) ==
    /\ frame.data = "json"
    /\ Get(frame.payload, "event") = Ev("on_chain_end")
    /\ ~ \E agent \in FinalAgents : Get(frame.payload, "name") = Str(agent)

\* C8: a frame whose payload has event = on_chain_end and a name outside the
\* final-agent set (or no name) does not invoke the completion callback: the
\* stream handle stays open and status stays as it was.
C8_NonFinalChainEndKeepsStream ==
    [][ \A src \in openSources, frame \in Frames :
            (streamFrame(src, frame) /\ IsNonFinalChainEnd(frame))
            => UNCHANGED << openSources, eventSourceRef, status >> ]_vars

\* C8 witness: a sub-agent's on_chain_end arrived and the stream is still open.
C8_Witness ==
    /\ lastOp = "streamFrame"
    /\ dataStream # << >> /\ dataStream[Len(dataStream)] \in {PSubEnd, PNoName}
    /\ openSources = {1}
    /\ status = "streaming"

\* C9 as stated: stop() in any status closes any open stream handle, sets
\* status to ready and issues a history refetch for the active conversation id.
C9_StopAlwaysRefetches ==
    [][ stop => /\ openSources' = {}
                /\ eventSourceRef' = NoSource
                /\ status' = "ready"
                /\ conversationIdRef # NoCid
                /\ loads' = Append(loads, conversationIdRef) ]_vars

\* C9 as amended: stop() in any status closes any open stream handle and sets
\* status to ready; it issues a history refetch for the active conversation
\* id when there is one, and no fetch when no conversation exists yet.
C9_StopClosesAndRefetchesIfConversation ==
    [][ stop => /\ openSources' = {}
                /\ eventSourceRef' = NoSource
                /\ status' = "ready"
                /\ conversationIdRef # NoCid => loads' = Append(loads, conversationIdRef)
                /\ conversationIdRef = NoCid => loads' = loads ]_vars

\* C9 witness: stop() while streaming closed stream 1 and issued the refetch.
C9_Witness ==
    /\ lastOp = "stop"
    /\ closedNow = {1}
    /\ openSources = {}
    /\ status = "ready"
    /\ loads # << >> /\ loads[Len(loads)] = conversationIdRef

\* C10: a transport-level error on the open stream shows an error
\* notification, closes the stream handle and resets status to ready.
C10_TransportErrorNotifies ==
    [][ \A src \in openSources :
            streamError(src)
            => /\ Len(toasted') >= 1
               /\ toasted'[1].type = "error"
               /\ src \notin openSources'
               /\ status' = "ready" ]_vars

(* C11 *)
IsChainErrorFrame(frame) ==
    /\ frame.data = "json"
    /\ frame.payload # Undef
    /\ EventType(frame.payload) = <<"on_chain_error">>

\* data.message when present, else data.error when present, else the default
ExpectedErrorText(payload) ==
    LET data == Get(payload, "data") IN
    IF Get(data, "message") # Undef THEN Get(data, "message").s
    ELSE IF Get(data, "error") # Undef THEN Get(data, "error").s
    ELSE MsgGenFailed

\* The effect of one on_chain_error event: exactly one error notification with
\* the expected text, status ready, the transcript and the handle untouched.
ChainErrorStep ==
    \A src \in openSources, frame \in Frames :
        (streamFrame(src, frame) /\ IsChainErrorFrame(frame))
        => /\ toasted' = << ErrorToast(ExpectedErrorText(frame.payload)) >>
           /\ status' = "ready"
           /\ messages' = messages
           /\ UNCHANGED << openSources, eventSourceRef >>

\* The handlers that close the handle of a stream that delivered on_chain_error
ChainErroredClosedBy(handlers) ==
    \A src \in chainErrored \cap openSources :
        src \notin openSources' => lastOp' \in handlers

StreamOpenedFor(n) ==
    /\ n \in openSources' /\ n \notin openSources
    /\ eventSourceRef' = n
    /\ status' = "streaming"

\* The step opened no stream for submit n and left status ready
NoStreamOpenedFor(n) ==
    /\ n \notin openSources'
    /\ eventSourceRef' # n
    /\ status' = "ready"

\* A create or append call of an accepted submit succeeds with response `data`
RestSucceeds(call, data, ok) ==
    \/ data.hasConversationId /\ postConversationsResolved(call, data, ok)
    \/ data \in AppendData /\ postConversationsMessagesResolved(call, data, ok)

\* C12 (as written): after the REST call of an accepted submit succeeds, a
\* stream is opened and status becomes streaming if and only if the response
\* says generation started and carries an assistant turn id; otherwise no
\* stream is opened and status is ready; on the create and on the append path.
C12_StreamOpenedIffStartedAndAssistantId ==
    [][ \A call \in pending, data \in ResponseData, ok \in BOOLEAN :
            RestSucceeds(call, data, ok)
            => IF data.started /\ data.hasAssistantId
               THEN StreamOpenedFor(call.n)
               ELSE NoStreamOpenedFor(call.n) ]_vars

\* C12 (amended): on the create path the stream is opened and status becomes
\* streaming if and only if the response says generation started, carries an
\* assistant turn id and the EventSource could be created; on the append path,
\* whose response has no started flag, if and only if the response carries an
\* assistant turn id and the EventSource could be created; in every other
\* successful case no stream is opened and status is ready.
C12_StreamOpenedPerPath ==
    [][ \A call \in pending, data \in ResponseData, ok \in BOOLEAN :
            /\ (data.hasConversationId /\ postConversationsResolved(call, data, ok))
               => IF data.started /\ data.hasAssistantId /\ ok
                  THEN StreamOpenedFor(call.n)
                  ELSE NoStreamOpenedFor(call.n)
            /\ (data \in AppendData /\ postConversationsMessagesResolved(call, data, ok))
               => IF data.hasAssistantId /\ ok
                  THEN StreamOpenedFor(call.n)
                  ELSE NoStreamOpenedFor(call.n) ]_vars

\* The append call of the second submit has just succeeded with an assistant
\* turn id, and its stream is open.
C12_Witness ==
    /\ lastOp = "postConversationsMessagesResolved"
    /\ status = "streaming"
    /\ eventSourceRef = 2 /\ openSources = {2}
    /\ pending = {}

(* C13 *)
\* `after` is `before` with exactly the user turn of the call appended and, iff
\* the response has an assistant id, one placeholder with an empty text part
TurnsAppended(before, after, call, data) ==
    LET n == Len(before) IN
    /\ Len(after) = n + (IF data.hasAssistantId THEN 2 ELSE 1)
    /\ \A i \in 1..n : after[i] = before[i]
    /\ after[n + 1].role = "user"
    /\ after[n + 1].parts = call.parts
    /\ data.hasAssistantId
       => /\ after[n + 2].role = "assistant"
          /\ after[n + 2].parts = << [type |-> "text", text |-> Str(<< >>)] >>

\* C13: an accepted submit whose REST call succeeds appends exactly one user
\* turn and, iff the response includes an assistant id, directly after it one
\* placeholder whose only part is an empty text part; the turns already there
\* keep position and content.  The create call is used when no conversation
\* exists, the append call otherwise.
C13_SubmitAppendsUserAndPlaceholder ==
    [][ /\ \A call \in pending, data \in ResponseData, ok \in BOOLEAN :
               RestSucceeds(call, data, ok)
               => TurnsAppended(messages, messages', call, data)
        /\ \A message \in MessageInputs :
               (sendMessage(message) /\ pending' # pending)
               => \A call \in pending' \ pending :
                      call.kind = (IF conversationIdRef = NoCid THEN "create" ELSE "append")
      ]_vars

\* The append call of the second submit has just succeeded without an
\* assistant id: one user turn was added after the two turns of the first.
C13_Witness ==
    /\ lastOp = "postConversationsMessagesResolved"
    /\ Len(messages) = 3
    /\ messages[1].role = "user" /\ messages[2].role = "assistant"
    /\ messages[3].role = "user" /\ messages[3].id = [k |-> "u", n |-> 2]

(* C14 *)
\* The payload carries a reasoning delta that is a non-empty string
HasReasoningDelta(payload) ==
    IsStr(ReasoningDelta(payload)) /\ ReasoningDelta(payload).s # << >>

\* C14: a delta event whose extracted text delta is empty or absent, and that
\* carries no non-empty reasoning delta, leaves the transcript the same list as
\* before the event.
C14_EmptyDeltaKeepsTranscript ==
    [][ \A src \in openSources, frame \in Frames :
            (/\ streamFrame(src, frame)
             /\ IsDeltaFrame(frame)
             /\ DeltaOf(frame.payload) = << >>
             /\ ~HasReasoningDelta(frame.payload))
            => messages' = messages ]_vars

\* A delta "a" and then a delta event without text were handled on the
\* placeholder of the first submit: its only part is the text "a".
C14_Witness ==
    /\ lastOp = "streamFrame"
    /\ Len(dataStream) = 2
    /\ dataStream[1] = PDeltaA /\ dataStream[2] \in {PEmpty, PAbsent}
    /\ messages = << UserTurn(1, messages[1].parts),
                     [id |-> [k |-> "a", n |-> 1], role |-> "assistant",
                      parts |-> << TextPart(Str(<<"a">>)) >>] >>

(* C15 *)
\* C15: a history fetch that fails with HTTP 404 makes the transcript the
\* empty list and shows no error notification; any other failure of the fetch
\* shows an error notification and leaves the transcript unchanged.
C15_HistoryFetchFailure ==
    [][ \A i \in 1..Len(loads), items \in BackendHistories :
            /\ loadMessagesSettled(i, "404", items)
               => (messages' = << >> /\ toasted' = << >>)
            /\ loadMessagesSettled(i, "error", items)
               => /\ Len(toasted') = 1 /\ toasted'[1].type = "error"
                  /\ messages' = messages ]_vars

\* A history fetch has just failed with an error other than 404 while the
\* transcript held turns: the error is shown and the turns are still there.
C15_Witness ==
    /\ lastOp = "loadMessagesSettled"
    /\ toasted = << ErrorToast(MsgLoadFailed) >>
    /\ Len(messages) >= 2

(* C16 *)
\* The twelve candidates in the rank order of the claim
RankPaths ==
    << <<"chunk", "content">>, <<"chunk", "text">>, <<"chunk", "delta">>, <<"chunk">>,
       <<"data", "chunk", "content">>, <<"data", "chunk", "text">>,
       <<"data", "chunk", "delta">>, <<"data", "chunk">>,
       <<"data", "content">>, <<"data", "text">>, <<"delta">>, <<"content">> >>

RECURSIVE At(_, _)
At(value, path) == IF path = << >> THEN value ELSE At(Get(value, Head(path)), Tail(path))

\* The ranks whose candidate normalizes to non-empty text
RanksWithText(payload) ==
    { i \in 1..Len(RankPaths) : Truthy(ensureString(At(payload, RankPaths[i]))) }

\* The normalized text of the lowest such rank, null (Undef) when there is none
FirstRankedText(payload) ==
    IF RanksWithText(payload) = {} THEN Undef
    ELSE LET first == CHOOSE i \in RanksWithText(payload) :
                          \A j \in RanksWithText(payload) : i <= j
         IN ensureString(At(payload, RankPaths[first]))

\* C16: delta extraction returns the normalized text of the first candidate,
\* in rank order, that normalizes to non-empty text, and null when none does;
\* in particular chunk.content = A with data.content = B yields A.  Checked on
\* every payload the stream has delivered.
C16_ExtractionFollowsRankOrder ==
    \A i \in 1..Len(dataStream) :
        /\ extractStreamText(dataStream[i]) = FirstRankedText(dataStream[i])
        /\ (/\ Truthy(At(dataStream[i], <<"chunk", "content">>))
            /\ IsStr(At(dataStream[i], <<"chunk", "content">>)))
           => extractStreamText(dataStream[i])
                = Str(normalizeEscapes(At(dataStream[i], <<"chunk", "content">>).s))

\* The payload with chunk.content "a" and data.content backslash-n-b was
\* delivered, and the placeholder now reads "a".
C16_Witness ==
    /\ dataStream = << Obj("event" :> Ev("on_chat_model_stream")
                          @@ "chunk" :> F1("content", Str(<<"a">>))
                          @@ "data" :> F1("content", Str(<<"\\", "n", "b">>))) >>
    /\ PartText(LastTurn(messages), "text") = <<"a">>

(* C17 *)
\* The step is a sendMessage call that was accepted
SubmitAccepted == \E message \in MessageInputs : sendMessage(message) /\ pending' # pending

\* C17: no second submit is accepted while an earlier one is in progress: at
\* most one submit REST call is outstanding at any time, and no submit is
\* accepted while a stream handle is open.
C17_OneSubmitInProgress ==
    [][ /\ Cardinality(pending') <= 1
        /\ SubmitAccepted => (pending = {} /\ openSources = {}) ]_vars

(* C18 *)
\* C18: while a stream is open the transcript is changed only by the events
\* of the stream: by no history-fetch response and by no submit.
C18_OnlyStreamWritesWhileOpen ==
    [][ (openSources # {} /\ messages' # messages) => lastOp' = "streamFrame" ]_vars

(* C19 *)
\* C19: the conversation id never changes once assigned; no create call is
\* issued when one was issued before (here: is outstanding) or a conversation
\* exists; every submit accepted once a conversation exists appends to it.
C19_ConversationIdStable ==
    [][ /\ conversationIdRef # NoCid => conversationIdRef' = conversationIdRef
        /\ \A call \in pending' \ pending :
               /\ call.kind = "create" => \A earlier \in pending : earlier.kind # "create"
               /\ conversationIdRef # NoCid
                  => (call.kind = "append" /\ call.cid = conversationIdRef) ]_vars

(* C20 *)
\* The transcripts differ in exactly the turns at the positions returned
ChangedTurns(before, after) ==
    { i \in 1..Len(before) : i > Len(after) \/ after[i] # before[i] }

\* C20: every change a stream event makes lands on the placeholder created by
\* the submit that opened the delivering stream (the stream and the placeholder
\* of the n-th submit both carry n), and on no other turn.
C20_EventsLandOnOwnPlaceholder ==
    [][ \A src \in openSources, frame \in Frames :
            (streamFrame(src, frame) /\ messages' # messages)
            => /\ Len(messages') = Len(messages)
               /\ \A i \in ChangedTurns(messages, messages') :
                      messages[i].id = [k |-> "a", n |-> src] ]_vars

(* C21 *)
\* `after` differs from `before` at most in its text and reasoning parts
OnlyTextAndReasoningChanged(before, after) ==
    /\ after.id = before.id
    /\ after.role = before.role
    /\ Len(after.parts) >= Len(before.parts)
    /\ \A k \in 1..Len(after.parts) :
           \/ after.parts[k].type \in {"text", "reasoning"}
           \/ (k <= Len(before.parts) /\ after.parts[k] = before.parts[k])
    /\ \A k \in 1..Len(before.parts) : after.parts[k].type = before.parts[k].type

\* C21: applying any stream event changes at most the text and reasoning
\* parts of the last turn: the number of turns, every turn before the last and
\* the last turn's id and role are unchanged; when the transcript is empty or
\* its last turn is not an assistant turn the transcript is unchanged.
C21_EventsTouchOnlyLastAssistantTurn ==
    [][ \A src \in openSources, frame \in Frames :
            streamFrame(src, frame)
            => /\ Len(messages') = Len(messages)
               /\ \A i \in 1..(Len(messages) - 1) : messages'[i] = messages[i]
               /\ Len(messages) > 0
                  => OnlyTextAndReasoningChanged(LastTurn(messages), LastTurn(messages'))
               /\ ~LastIsAssistant(messages) => messages' = messages ]_vars

\* A text delta has just been handled while the last turn of the transcript
\* was a user turn, which still holds the text the user sent.
C21_Witness ==
    /\ lastOp = "streamFrame"
    /\ dataStream # << >> /\ dataStream[Len(dataStream)] = PDeltaA
    /\ Len(messages) = 3
    /\ LastTurn(messages).role = "user"
    /\ LastTurn(messages).parts = << UserPart("text", Str(<<"h", "i">>)) >>

(* C22 *)
\* The create or append call of an accepted submit fails: it rejects, or the
\* create response carries no conversation id
RestFails(call, data, ok) ==
    \/ sendMessageRejected(call)
    \/ ~data.hasConversationId /\ postConversationsResolved(call, data, ok)

\* C22: if the create or append REST call of an accepted submit fails
\* (a create response without a conversation id included), status returns to
\* ready, one error notification is shown, no turn is appended, the
\* conversation id is unchanged and no stream is opened.
C22_RestFailureLeavesNoTrace ==
    [][ \A call \in pending, data \in ResponseData, ok \in BOOLEAN :
            RestFails(call, data, ok)
            => /\ status' = "ready"
               /\ Len(toasted') = 1 /\ toasted'[1].type = "error"
               /\ messages' = messages
               /\ conversationIdRef' = conversationIdRef
               /\ UNCHANGED << openSources, eventSourceRef >> ]_vars

\* The create call of the first submit has just answered without a
\* conversation id: the error is shown, status is ready, nothing else changed.
C22_Witness ==
    /\ lastOp = "postConversationsResolved"
    /\ toasted = << ErrorToast(MsgNoConv) >>
    /\ status = "ready"
    /\ messages = << >>
    /\ conversationIdRef = NoCid
    /\ openSources = {} /\ pending = {}

(* C23 *)
\* C23: with REST calls that always return or fail, status does not stay
\* submitted: every accepted submit is followed by a status other than
\* submitted; and with streams that end (completion signal, transport error
\* or stop()), streaming is always followed by ready.
C23_SubmittedAndStreamingEnd ==
    /\ (status = "submitted") ~> (status \in {"streaming", "ready"})
    /\ (status = "streaming") ~> (status = "ready")

\* A submit went through submitted and streaming, and the transport error of
\* its stream has brought status back to ready.
C23_Witness ==
    /\ lastOp = "streamError"
    /\ status = "ready"
    /\ submitCount = 1 /\ pending = {}
    /\ LastIsAssistant(messages)
    /\ openSources = {}

====
